---- MODULE Spec2Model ----
(***************************************************************************)
(* Model of majoralph.py: the loop controller entry(), the process         *)
(* supervisor run_tee(), the ledger access functions and the external      *)
(* runner process as the environment the supervisor runs against.          *)
(***************************************************************************)
EXTENDS Integers, Sequences, FiniteSets, TLC

\* ---------------------------------------------------------------- bounds
MaxIters == 2      \* largest --max-iters value explored
MaxLines == 2      \* most output lines one runner process writes
MaxTime == 1       \* monotonic clock ticks observed inside one run_tee call
MaxStories == 2    \* most stories under one key of a ledger document
MaxRuns == 2       \* most runs of the program one after the other
MaxDays == 2       \* most days the runs are spread over
MaxPieces == 2     \* most pieces of one token of --custom-cmd
MaxTokens == 2     \* most tokens of --custom-cmd
MaxHeight == 2     \* largest number of display lines of a TuiDisplay
MaxUpdates == 5    \* most calls of TuiDisplay.update on one display

\* ------------------------------------------------------------- constants
NoTimeout == -1    \* behaviour.timeout is None
NoCode == -1       \* entry() has not returned yet
NoneRc == -100     \* proc.returncode is None (the process was not reaped)
SIGTERM == -15     \* returncode of a process ended by proc.terminate()
SIGKILL == -9      \* returncode of a process ended by proc.kill()

\* ------------------------------------------------------ ledger documents
\* A name (of a branch, of a folder) is a sequence of tokens: words, single
\* punctuation characters and white space.
TemplateBranch == <<"ralph", "/", "my-feature">>

\* A parsed prd.json: each of the two accepted story keys either holds a
\* list (has... = TRUE) of stories or does not; a story is its passes flag.
\* Each of the two accepted branch keys holds a name, <<>> when the key is
\* missing or holds nothing.
Doc(hasUS, us, hasS, s) ==
    [hasUserStories |-> hasUS, userStories |-> us, hasStories |-> hasS, stories |-> s,
     branchName |-> TemplateBranch, branch |-> <<>>]

\* the document with other values under the two branch keys
OnBranch(d, bn, b) == [d EXCEPT !.branchName = bn, !.branch = b]

PRDTEMPLATE == Doc(TRUE, <<FALSE>>, FALSE, <<>>)

\* prd.json on disk: missing, bytes that are not UTF-8, text that is not
\* JSON, or a JSON text with the value it parses to
AbsentFile == [kind |-> "absent", doc |-> PRDTEMPLATE]
UndecodableFile == [kind |-> "undecodable", doc |-> PRDTEMPLATE]
MalformedFile == [kind |-> "malformed", doc |-> PRDTEMPLATE]
JsonFile(d) == [kind |-> "json", doc |-> d]

\* what json.loads returns for a JSON text that is an array, not an object
JsonArray == [array |-> <<>>]

\* the ledger contents the loop is explored with
LoopDocs == {PRDTEMPLATE, Doc(TRUE, <<TRUE>>, FALSE, <<>>)}

LedgerFiles == {AbsentFile, MalformedFile} \cup {JsonFile(d) : d \in LoopDocs}

prd_stories(prd) ==
    IF prd.hasUserStories THEN prd.userStories
    ELSE IF prd.hasStories THEN prd.stories
    ELSE <<>>

\* all(...) without bool(stories)
prd_done_all(prd) ==
    LET stories == prd_stories(prd)
    IN  \A k \in 1..Len(stories) : stories[k]

\* a story is bool(s.get("passes")): FALSE also when the key is missing
prd_done(prd) ==
    LET stories == prd_stories(prd)
    IN  Len(stories) > 0 /\ \A k \in 1..Len(stories) : stories[k]

\* load_json returning defaultobj whatever the file holds
load_json_default(file) ==
    IF file.kind = "malformed"
    THEN [raises |-> TRUE, error |-> "RuntimeError", doc |-> PRDTEMPLATE, file |-> file]
    ELSE [raises |-> FALSE, error |-> "none", doc |-> PRDTEMPLATE,
          file |-> IF file.kind = "absent" THEN JsonFile(PRDTEMPLATE) ELSE file]

\* load_json(path, PRDTEMPLATE): the document returned, whether it raises
\* and which exception, and the file as it is on disk afterwards.
\* path.read_text(encoding="utf-8") raises UnicodeDecodeError, which the
\* except clause for json.JSONDecodeError does not catch.
load_json(file) ==
    IF file.kind = "absent"
    THEN [raises |-> FALSE, error |-> "none", doc |-> PRDTEMPLATE,
          file |-> JsonFile(PRDTEMPLATE)]
    ELSE IF file.kind = "undecodable"
    THEN [raises |-> TRUE, error |-> "UnicodeDecodeError", doc |-> PRDTEMPLATE,
          file |-> file]
    ELSE IF file.kind = "malformed"
    THEN [raises |-> TRUE, error |-> "RuntimeError", doc |-> PRDTEMPLATE, file |-> file]
    ELSE [raises |-> FALSE, error |-> "none", doc |-> file.doc, file |-> file]

\* a ledger file is complete: it parses, its story sequence is non-empty and
\* every story passes
Complete(file) ==
    /\ file.kind = "json"
    /\ LET st == IF file.doc.hasUserStories THEN file.doc.userStories
                 ELSE IF file.doc.hasStories THEN file.doc.stories ELSE <<>>
       IN  st # <<>> /\ \A k \in DOMAIN st : st[k] = TRUE

\* ------------------------------------------------------------ state store
Blank(tok) == tok \in {" ", "\n"}

RECURSIVE LStrip(_)
LStrip(name) == IF name # <<>> /\ Blank(Head(name)) THEN LStrip(Tail(name)) ELSE name

RECURSIVE RStrip(_)
RStrip(name) ==
    IF name # <<>> /\ Blank(name[Len(name)])
    THEN RStrip(SubSeq(name, 1, Len(name) - 1))
    ELSE name

\* str.strip()
Strip(name) == RStrip(LStrip(name))

\* prd.get("branchName") or prd.get("branch") or "", stripped
prd_branch(prd) ==
    Strip(IF prd.branchName # <<>> THEN prd.branchName ELSE prd.branch)

Unsafe == {"\\", "/", ":", "*", "?", "\"", "<", ">", "|"}

\* every unsafe character becomes "_"; a leading "ralph/" is dropped (again
\* and again); an empty result becomes "unknown"
RECURSIVE safe_folder_name(_)
safe_folder_name(name) ==
    LET out == IF Len(name) >= 2 /\ name[1] = "ralph" /\ name[2] = "/"
               THEN safe_folder_name(SubSeq(name, 3, Len(name)))
               ELSE IF name = <<>> THEN <<>>
               ELSE [k \in 1..Len(name) |-> IF name[k] \in Unsafe THEN "_" ELSE name[k]]
    IN  IF out = <<>> THEN <<"unknown">> ELSE out

\* a text file: missing, or there with its content
NoFile == [exists |-> FALSE, text |-> <<>>]
File(t) == [exists |-> TRUE, text |-> t]

PROMPTTEMPLATE == <<"# prompt.md">>
AgentsBoilerplate == <<"# AGENTS.md">>

\* "# Ralph Progress Log\nStarted: <now>\n---\n"
ProgressHeader(now) == <<[kind |-> "header", at |-> now]>>

\* "\n--- Iteration <n> started: <now> ---\n"
IterationMarker(n) == [kind |-> "iteration", at |-> n]

\* something the user or the agent wrote
Edited == <<"edited">>
Notes == <<[kind |-> "notes", at |-> 0]>>

\* ensure_files writing every file, absent or not
ensure_files_overwrite(fs, now) ==
    [prompt |-> File(PROMPTTEMPLATE), prd |-> JsonFile(PRDTEMPLATE),
     progress |-> File(ProgressHeader(now)), agents |-> File(AgentsBoilerplate)]

\* ensure_files starting the progress log afresh whenever it is called
ensure_files_restart(fs, now) ==
    [prompt |-> IF fs.prompt.exists THEN fs.prompt ELSE File(PROMPTTEMPLATE),
     prd |-> IF fs.prd.kind # "absent" THEN fs.prd ELSE JsonFile(PRDTEMPLATE),
     progress |-> File(ProgressHeader(now)),
     agents |-> IF fs.agents.exists THEN fs.agents ELSE File(AgentsBoilerplate)]

\* ensure_files(promptfile, prdfile, progressfile, agentsfile)
ensure_files(fs, now) ==
    [prompt |-> IF fs.prompt.exists THEN fs.prompt ELSE File(PROMPTTEMPLATE),
     prd |-> IF fs.prd.kind # "absent" THEN fs.prd ELSE JsonFile(PRDTEMPLATE),
     progress |-> IF fs.progress.exists THEN fs.progress ELSE File(ProgressHeader(now)),
     agents |-> IF fs.agents.exists THEN fs.agents ELSE File(AgentsBoilerplate)]

\* open(path, "w").write(text)
append_text_truncating(file, entry) == File(<<entry>>)

\* open(path, "a").write(text)
append_text(file, entry) == File(file.text \o <<entry>>)

\* the marker left as it is
RecordBranchNever(mark, branch) == mark

\* the marker written only when there is none yet
RecordBranchIfAbsent(mark, branch) == IF mark.exists THEN mark ELSE File(branch \o <<"\n">>)

\* lastbranchfile.write_text(branch + "\n")
RecordBranch(mark, branch) == File(branch \o <<"\n">>)

\* an archive directory: the copy of prd.json, the copy of progress.txt and
\* the names of the copied iteration logs
EmptyDir == [prd |-> AbsentFile, progress |-> NoFile, logs |-> {}]

\* the steps of maybe_archive that can fail
ArchiveSteps == {"mkdir", "copy_prd", "copy_progress", "copy_logs", "reset"}

\* archives.joinpath(f"{date}-{safe_folder_name(last)}")
ArchiveDest(today, last) == [date |-> today, name |-> safe_folder_name(last)]

\* maybe_archive that resets the progress log before it copies
maybe_archive_reset_first(led, prog, mark, logs, arch, today, fail) ==
    LET keep == [raises |-> FALSE, archive |-> arch, progress |-> prog, acted |-> FALSE]
        r == load_json(led)
        last == Strip(mark.text)
        dest == ArchiveDest(today, last)
        old == IF dest \in DOMAIN arch THEN arch[dest] ELSE EmptyDir
        put(snap) == [d \in DOMAIN arch \cup {dest} |-> IF d = dest THEN snap ELSE arch[d]]
    IN  IF led.kind = "absent" \/ ~mark.exists THEN keep
        ELSE IF r.raises THEN [keep EXCEPT !.raises = TRUE]
        ELSE IF prd_branch(r.doc) = <<>> \/ last = <<>> \/ prd_branch(r.doc) = last
        THEN keep
        ELSE [raises |-> FALSE, archive |-> put(old),
              progress |-> File(ProgressHeader(today)), acted |-> TRUE]

\* maybe_archive(state, prdfile, progressfile, lastbranchfile) when the step
\* fail (if any) raises: whether an exception leaves the function, the
\* archive and the progress log afterwards, whether the archive was touched
maybe_archive(led, prog, mark, logs, arch, today, fail) ==
    LET keep == [raises |-> FALSE, archive |-> arch, progress |-> prog, acted |-> FALSE]
        r == load_json(led)
        last == Strip(mark.text)
        dest == ArchiveDest(today, last)
        old == IF dest \in DOMAIN arch THEN arch[dest] ELSE EmptyDir
        s1 == [old EXCEPT !.prd = led]
        s2 == IF prog.exists THEN [s1 EXCEPT !.progress = prog] ELSE s1
        s3 == [s2 EXCEPT !.logs = @ \cup logs]
        put(snap) == [d \in DOMAIN arch \cup {dest} |-> IF d = dest THEN snap ELSE arch[d]]
        caught(snap) == [raises |-> FALSE, archive |-> put(snap), progress |-> prog,
                         acted |-> TRUE]
    IN  IF led.kind = "absent" \/ ~mark.exists THEN keep
        ELSE IF r.raises THEN [keep EXCEPT !.raises = TRUE]
        ELSE IF prd_branch(r.doc) = <<>> \/ last = <<>> \/ prd_branch(r.doc) = last
        THEN keep
        ELSE IF fail = "mkdir" THEN [keep EXCEPT !.raises = TRUE]
        ELSE IF fail = "copy_prd" THEN caught(old)
        ELSE IF fail = "copy_progress" /\ prog.exists THEN caught(s1)
        ELSE IF fail = "copy_logs" THEN caught(s2)
        ELSE IF fail = "reset" THEN caught(s3)
        ELSE [raises |-> FALSE, archive |-> put(s3),
              progress |-> File(ProgressHeader(today)), acted |-> TRUE]

\* ------------------------------------------------------- runner output
\* A line is a sequence of tokens; every line read ends in a newline. The
\* runner writes the sentinel in mixed letter case, split over two lines.
Lower(tok) ==
    CASE tok \in {"<promise>", "<PROMISE>"} -> "<promise>"
      [] tok \in {"COMPLETE", "Complete"} -> "complete"
      [] tok \in {"</promise>", "</Promise>"} -> "</promise>"
      [] OTHER -> tok

OpenLine == <<"<PROMISE>">>
CloseLine == <<"Complete", "</Promise>">>
UndecodableLine == <<"\\xff">>

OutputLines == {OpenLine, CloseLine, UndecodableLine}

TimeoutMarker == <<"[wrapper] timeout; terminating process">>
ErrorMarker == <<"error: runner failed">>

RECURSIVE Joined(_)
Joined(lines) ==
    IF lines = <<>> THEN <<>>
    ELSE Head(lines) \o <<"\n">> \o Joined(Tail(lines))

RECURSIVE SkipSpace(_, _)
SkipSpace(s, p) ==
    IF p <= Len(s) /\ s[p] = "\n" THEN SkipSpace(s, p + 1) ELSE p

\* DEFAULTSENTINEL  <promise>\s*COMPLETE\s*</promise>  compiled with
\* re.IGNORECASE, matched at position p of the joined output
SentinelMatchAt(s, p) ==
    LET q == SkipSpace(s, p + 1)
        r == SkipSpace(s, q + 1)
    IN  /\ Lower(s[p]) = "<promise>"
        /\ q <= Len(s) /\ Lower(s[q]) = "complete"
        /\ r <= Len(s) /\ Lower(s[r]) = "</promise>"

\* the search without re.IGNORECASE
SentinelSearchCased(lines) ==
    LET s == Joined(lines)
    IN  \E p \in 1..Len(s) :
          LET q == SkipSpace(s, p + 1)
              r == SkipSpace(s, q + 1)
          IN  /\ s[p] = "<promise>"
              /\ q <= Len(s) /\ s[q] = "COMPLETE"
              /\ r <= Len(s) /\ s[r] = "</promise>"

SentinelSearch(lines) ==
    LET s == Joined(lines) IN \E p \in 1..Len(s) : SentinelMatchAt(s, p)

\* ------------------------------------------------------------ variables
VARIABLES
    behaviour,   \* the parsed command line (Behaviour)
    env,         \* what the early checks find: git work tree, runner executable
    ledger,      \* prd.json on disk
    complete0,   \* prd.json was complete when the run started
    prd,         \* the document entry() holds from its latest load_json
    pc,          \* position of entry() / run_tee()
    i,           \* loop index of entry()
    exitcode,    \* exit code of the process, NoCode while running
    outcome,     \* which return statement (or uncaught exception) ended the run
    alive,       \* cycles whose runner process has not exited
    launches,    \* number of successful Popen calls for the runner
    stdoutOpen,  \* the current process still holds the write end of the pipe
    pipe,        \* lines written by the current process and not yet read
    written,     \* number of lines the current process has written
    status,      \* exit status of the current process once it has exited
    returncode,  \* proc.returncode as the supervisor knows it
    elapsed,     \* monotonic() - start
    combined,    \* run_tee's combined list
    log,         \* iteration log file of the current cycle
    rc,          \* exit code returned by run_tee
    timedout,    \* the timeout branch of run_tee ran in the current cycle
    raised,      \* where run_tee raised in the current cycle ("none": it did not)
    completed,   \* number of loop bodies that ran to their end
    doneSince,   \* cycle during whose run_tee call the ledger was made complete (0: none)
    promptfile,  \* prompt.md
    progressfile,   \* progress.txt
    agentsfile,  \* AGENTS.md
    lastbranchfile, \* .ralph/.last-branch
    logsdir,     \* names of the iteration logs earlier runs left in .ralph/logs
    archive,     \* .ralph/archive: the directories in it and what each holds
    date,        \* today
    head,        \* the branch git has checked out
    did,         \* what this run has done to the state store and to git
    lastbranch0, \* .ralph/.last-branch as it was when the run started
    runs,        \* number of runs started so far
    arg,         \* argument of the function under study
    res          \* what the function returned for it

vars == <<behaviour, env, ledger, complete0, prd, pc, i, exitcode, outcome, alive,
          launches, stdoutOpen, pipe, written, status, returncode, elapsed,
          combined, log, rc, timedout, raised, completed, doneSince,
          promptfile, progressfile, agentsfile, lastbranchfile, logsdir, archive,
          date, head, did, lastbranch0, runs, arg, res>>

ctlVars == <<pc, i, exitcode, outcome, prd, completed>>
procVars == <<alive, launches, stdoutOpen, pipe, written, status, returncode>>
teeVars == <<elapsed, combined, log, rc, timedout, raised>>
fsVars == <<promptfile, progressfile, agentsfile, lastbranchfile, logsdir, archive,
            date, head, did>>
auxVars == <<lastbranch0, runs, arg, res>>

\* --custom-cmd is only given together with --runner custom
Behaviours ==
    { b \in [init : BOOLEAN, check : BOOLEAN, dryrun : BOOLEAN,
             maxiters : 0..MaxIters, timeout : {NoTimeout, 0},
             runner : {"opencode", "custom"}, customcmd : BOOLEAN] :
        b.customcmd => b.runner = "custom" }

\* archfail: the step of maybe_archive that raises when it is reached
Envs == [gitrepo : BOOLEAN, exefound : BOOLEAN, archfail : {"none"}]

NoArchives == [d \in {} |-> EmptyDir]

\* no function is under study
Idle == <<>>

\* the markers the loop is explored with: none, or one a run on another
\* branch left
LoopMarkers == {NoFile, File(<<"old-feature", "\n">>)}

\* a run in progress; a fresh state store
Fresh ==
    /\ prd = PRDTEMPLATE
    /\ i = 0
    /\ exitcode = NoCode
    /\ outcome = "running"
    /\ alive = {}
    /\ launches = 0
    /\ stdoutOpen = FALSE
    /\ pipe = <<>>
    /\ written = 0
    /\ status = NoneRc
    /\ returncode = NoneRc
    /\ elapsed = 0
    /\ combined = <<>>
    /\ log = <<>>
    /\ rc = NoneRc
    /\ timedout = FALSE
    /\ raised = "none"
    /\ completed = 0
    /\ doneSince = 0
    /\ archive = NoArchives
    /\ date = 1
    /\ head = <<"main">>
    /\ did = {}
    /\ runs = 1

Init ==
    /\ behaviour \in Behaviours
    /\ env \in Envs
    /\ ledger \in LedgerFiles
    /\ complete0 = Complete(ledger)
    /\ Fresh
    /\ pc = "start"
    /\ promptfile = NoFile
    /\ progressfile = NoFile
    /\ agentsfile = NoFile
    /\ lastbranchfile \in LoopMarkers
    /\ lastbranch0 = lastbranchfile
    /\ logsdir = {}
    /\ arg = Idle
    /\ res = Idle

\* entry() returns code with the given outcome
Return(code, how) ==
    /\ pc' = "stopped"
    /\ exitcode' = code
    /\ outcome' = how

\* an exception nothing catches leaves entry(): the interpreter exits 1
Uncaught == Return(1, "crash")

Success == {"alldone", "sentinel", "alldone_prd"}

\* --------------------------------------------------- entry(): start-up
\* ensure_git_repo, ensure_files, the state directories
Start ==
    /\ pc = "start"
    /\ IF ~env.gitrepo
       THEN /\ Return(2, "precondition")
            /\ UNCHANGED <<ledger, promptfile, progressfile, agentsfile>>
       ELSE LET fs == ensure_files([prompt |-> promptfile, prd |-> ledger,
                                    progress |-> progressfile, agents |-> agentsfile],
                                   date)
            IN  /\ promptfile' = fs.prompt
                /\ ledger' = fs.prd
                /\ progressfile' = fs.progress
                /\ agentsfile' = fs.agents
                /\ pc' = "resolve"
                /\ UNCHANGED <<exitcode, outcome>>
    /\ UNCHANGED <<behaviour, env, complete0, prd, i, completed, doneSince>>
    /\ UNCHANGED <<procVars, teeVars>>
    /\ UNCHANGED <<lastbranchfile, logsdir, archive, date, head, did, auxVars>>

\* runner resolution that asks for no --custom-cmd
RunnerResolvedAnyCommand == env.exefound

\* resolve runner binary early
RunnerResolved ==
    IF behaviour.runner = "custom"
    THEN behaviour.customcmd /\ env.exefound
    ELSE env.exefound

ResolveRunner ==
    /\ pc = "resolve"
    /\ IF RunnerResolved
       THEN pc' = "mode" /\ UNCHANGED <<exitcode, outcome>>
       ELSE Return(2, "precondition")
    /\ UNCHANGED <<behaviour, env, ledger, complete0, prd, i, completed, doneSince>>
    /\ UNCHANGED <<procVars, teeVars>>
    /\ UNCHANGED <<fsVars, auxVars>>

\* --init returns; otherwise the first load_json, and --check returns
FirstLoad ==
    /\ pc = "mode"
    /\ LET r == load_json(ledger)
       IN  IF behaviour.init
           THEN Return(0, "init") /\ UNCHANGED <<ledger, prd>>
           ELSE IF r.raises
           THEN Uncaught /\ UNCHANGED <<ledger, prd>>
           ELSE /\ ledger' = r.file
                /\ prd' = r.doc
                /\ IF behaviour.check
                   THEN Return(0, "check")
                   ELSE pc' = "archive" /\ UNCHANGED <<exitcode, outcome>>
    /\ UNCHANGED <<behaviour, env, complete0, i, completed, doneSince>>
    /\ UNCHANGED <<procVars, teeVars>>
    /\ UNCHANGED <<fsVars, auxVars>>

\* archive on branch change: maybe_archive(state, prdfile, progressfile,
\* lastbranchfile)
MaybeArchive ==
    /\ pc = "archive"
    /\ LET m == maybe_archive(ledger, progressfile, lastbranchfile, logsdir, archive,
                              date, env.archfail)
       IN  /\ archive' = m.archive
           /\ progressfile' = m.progress
           /\ did' = did \cup (IF m.acted THEN {"archive"} ELSE {})
           /\ IF m.raises
              THEN Uncaught
              ELSE pc' = "branch" /\ UNCHANGED <<exitcode, outcome>>
    /\ UNCHANGED <<behaviour, env, ledger, complete0, prd, i, completed, doneSince>>
    /\ UNCHANGED <<procVars, teeVars>>
    /\ UNCHANGED <<promptfile, agentsfile, lastbranchfile, logsdir, date, head, auxVars>>

\* ensure git branch matches prd: ensure_on_branch(repo, branch) checks the
\* branch out (creating it when there is none) unless it is the current
\* one, then the marker is written
ResolveBranch ==
    /\ pc = "branch"
    /\ LET branch == prd_branch(prd)
       IN  IF branch # <<>>
           THEN /\ head' = branch
                /\ lastbranchfile' = RecordBranch(lastbranchfile, branch)
                /\ did' = did \cup {"marker"}
                              \cup (IF head # branch THEN {"checkout"} ELSE {})
           ELSE UNCHANGED <<head, lastbranchfile, did>>
    /\ pc' = "for"
    /\ UNCHANGED <<behaviour, env, ledger, complete0, prd, i, exitcode, outcome>>
    /\ UNCHANGED <<completed, doneSince, procVars, teeVars>>
    /\ UNCHANGED <<promptfile, progressfile, agentsfile, logsdir, archive, date, auxVars>>

\* ------------------------------------------------------ entry(): the loop
\* for i in range(1, behaviour.maxiters + 1), and the return after it
\* range(1, maxiters + 2)
LoopContinuesInclusive(n, maxiters) == n <= maxiters

LoopContinues(n, maxiters) == n < maxiters

ForNext ==
    /\ pc = "for"
    /\ IF LoopContinues(i, behaviour.maxiters)
       THEN i' = i + 1 /\ pc' = "check_done" /\ UNCHANGED <<exitcode, outcome>>
       ELSE Return(1, "exhausted") /\ UNCHANGED i
    /\ UNCHANGED <<behaviour, env, ledger, complete0, prd, completed, doneSince>>
    /\ UNCHANGED <<procVars, teeVars>>
    /\ UNCHANGED <<fsVars, auxVars>>

\* CHECK_DONE: reload the ledger, stop when it is complete
CheckDone ==
    /\ pc = "check_done"
    /\ LET r == load_json(ledger)
       IN  IF r.raises
           THEN Uncaught /\ UNCHANGED <<ledger, prd>>
           ELSE /\ ledger' = r.file
                /\ prd' = r.doc
                /\ IF prd_done(r.doc)
                   THEN Return(0, "alldone")
                   ELSE pc' = "build" /\ UNCHANGED <<exitcode, outcome>>
    /\ UNCHANGED <<behaviour, env, complete0, i, completed, doneSince>>
    /\ UNCHANGED <<procVars, teeVars>>
    /\ UNCHANGED <<fsVars, auxVars>>

\* BUILD_COMMAND that goes on to EXECUTE in a dry run too
BuildCommandNoDryRun ==
    /\ pc = "build"
    /\ progressfile' = append_text(progressfile, IterationMarker(i))
    /\ pc' = "execute"
    /\ UNCHANGED <<exitcode, outcome>>
    /\ UNCHANGED <<behaviour, env, ledger, complete0, prd, i, completed, doneSince>>
    /\ UNCHANGED <<procVars, teeVars>>
    /\ UNCHANGED <<promptfile, agentsfile, lastbranchfile, logsdir, archive, date, head>>
    /\ UNCHANGED <<did, auxVars>>

\* RENDER_PROMPT and BUILD_COMMAND; --dry-run returns here; otherwise the
\* iteration-started marker is appended to the progress log
BuildCommand ==
    /\ pc = "build"
    /\ IF behaviour.dryrun
       THEN Return(0, "dryrun") /\ UNCHANGED progressfile
       ELSE /\ progressfile' = append_text(progressfile, IterationMarker(i))
            /\ pc' = "execute"
            /\ UNCHANGED <<exitcode, outcome>>
    /\ UNCHANGED <<behaviour, env, ledger, complete0, prd, i, completed, doneSince>>
    /\ UNCHANGED <<procVars, teeVars>>
    /\ UNCHANGED <<promptfile, agentsfile, lastbranchfile, logsdir, archive, date, head>>
    /\ UNCHANGED <<did, auxVars>>

\* ------------------------------------------------------------ run_tee()
TeePcs == {"tee_top", "tee_read", "tee_poll", "tee_grace"}

\* run_tee is left by an exception: its locals and its end of the pipe are
\* gone, the process is left as it is
Raise(where) ==
    /\ pc' = "except"
    /\ raised' = where
    /\ pipe' = <<>>
    /\ written' = 0
    /\ stdoutOpen' = FALSE
    /\ elapsed' = 0
    /\ combined' = <<>>

\* logfile.parent.mkdir, open(logfile, "w"), start = monotonic(), Popen(cmd, ...):
\* the log file cannot be opened for writing (OSError), or the process cannot
\* be launched (OSError from Popen), or the process runs
RunTeeLaunch ==
    /\ pc = "execute"
    /\ log' = <<>>
    /\ timedout' = FALSE
    /\ status' = NoneRc
    /\ returncode' = NoneRc
    /\ rc' = NoneRc
    /\ \E result \in {"launched", "logfile", "launch"} :
          IF result = "launched"
          THEN /\ alive' = alive \cup {i}
               /\ launches' = launches + 1
               /\ stdoutOpen' = TRUE
               /\ pc' = "tee_top"
               /\ raised' = "none"
               /\ elapsed' = 0
               /\ combined' = <<>>
               /\ pipe' = <<>>
               /\ written' = 0
          ELSE /\ Raise(result)
               /\ UNCHANGED <<alive, launches>>
    /\ UNCHANGED <<behaviour, env, ledger, complete0, prd, i, exitcode, outcome>>
    /\ UNCHANGED <<completed, doneSince>>
    /\ UNCHANGED <<fsVars, auxVars>>

\* if timeout is not None and (monotonic() - start) > float(timeout)
TimedOut(t, timeout) == timeout # NoTimeout /\ t > timeout

\* the timeout branch without the write to the log file
TimeoutLogNone(lines) == lines

\* lf.write("[wrapper] timeout after ...; terminating process"); lf.flush()
TimeoutLog(lines) == Append(lines, TimeoutMarker)

\* top of the while loop: the elapsed-time check; on a timeout the marker
\* goes to the log file and proc.terminate() is called
RunTeeTop ==
    /\ pc = "tee_top"
    /\ IF TimedOut(elapsed, behaviour.timeout)
       THEN /\ log' = TimeoutLog(log)
            /\ timedout' = TRUE
            /\ pc' = "tee_grace"
       ELSE /\ pc' = "tee_read"
            /\ UNCHANGED <<log, timedout>>
    /\ UNCHANGED <<behaviour, env, ledger, complete0, prd, i, exitcode, outcome>>
    /\ UNCHANGED <<procVars, elapsed, combined, rc, raised, completed, doneSince>>
    /\ UNCHANGED <<fsVars, auxVars>>

\* rc = proc.returncode or 1
ReturnCodeNonZero(code) == IF code # NoneRc /\ code # 0 THEN code ELSE 1

\* rc = proc.returncode if proc.returncode is not None else 1
ReturnCode(code) == IF code # NoneRc THEN code ELSE 1

\* after the break: return rc, "".join(combined); the locals of run_tee and
\* what was still in the pipe are gone
RunTeeReturn(code) ==
    /\ returncode' = code
    /\ rc' = ReturnCode(code)
    /\ pc' = "evaluate"
    /\ pipe' = <<>>
    /\ written' = 0
    /\ stdoutOpen' = FALSE
    /\ elapsed' = 0

\* proc.wait(timeout=5); when it expires proc.kill() and proc.wait(); break
RunTeeGrace ==
    /\ pc = "tee_grace"
    /\ IF i \in alive
       THEN /\ alive' = alive \ {i}
            /\ status' = SIGKILL
            /\ RunTeeReturn(SIGKILL)
       ELSE /\ RunTeeReturn(status)
            /\ UNCHANGED <<alive, status>>
    /\ UNCHANGED <<behaviour, env, ledger, complete0, prd, i, exitcode, outcome>>
    /\ UNCHANGED <<launches, combined, log, timedout, raised, completed, doneSince>>
    /\ UNCHANGED <<fsVars, auxVars>>

\* line = proc.stdout.readline(): returns a line when one is in the pipe,
\* '' at end of file, and otherwise does not return; a line that cannot be
\* decoded raises
RunTeeRead ==
    /\ pc = "tee_read"
    /\ \/ /\ pipe # <<>>
          /\ IF Head(pipe) = UndecodableLine
             THEN /\ Raise("stream")
                  /\ UNCHANGED log
             ELSE /\ log' = Append(log, Head(pipe))
                  /\ combined' = Append(combined, Head(pipe))
                  /\ pipe' = Tail(pipe)
                  /\ pc' = "tee_top"
                  /\ UNCHANGED <<raised, written, stdoutOpen, elapsed>>
       \/ /\ pipe = <<>>
          /\ ~stdoutOpen
          /\ pc' = "tee_poll"
          /\ UNCHANGED <<pipe, log, combined, raised, written, stdoutOpen, elapsed>>
    /\ UNCHANGED <<behaviour, env, ledger, complete0, prd, i, exitcode, outcome>>
    /\ UNCHANGED <<alive, launches, status, returncode>>
    /\ UNCHANGED <<rc, timedout, completed, doneSince>>
    /\ UNCHANGED <<fsVars, auxVars>>

\* if proc.poll() is not None: break; else sleep(0.05)
RunTeePoll ==
    /\ pc = "tee_poll"
    /\ IF i \notin alive
       THEN RunTeeReturn(status)
       ELSE /\ pc' = "tee_top"
            /\ UNCHANGED <<returncode, rc, pipe, written, stdoutOpen, elapsed>>
    /\ UNCHANGED <<behaviour, env, ledger, complete0, prd, i, exitcode, outcome>>
    /\ UNCHANGED <<alive, launches, status>>
    /\ UNCHANGED <<combined, log, timedout, raised, completed, doneSince>>
    /\ UNCHANGED <<fsVars, auxVars>>

\* time passes while run_tee runs (the clock is read only with a timeout set)
Tick ==
    /\ pc \in TeePcs
    /\ behaviour.timeout # NoTimeout
    /\ elapsed < MaxTime
    /\ elapsed' = elapsed + 1
    /\ UNCHANGED <<behaviour, env, ledger, complete0, ctlVars, procVars, doneSince>>
    /\ UNCHANGED <<combined, log, rc, timedout, raised>>
    /\ UNCHANGED <<fsVars, auxVars>>

\* ------------------------------------------- entry(): after run_tee
\* except Exception: logfile.write_text replaces the log file by the error
\* marker, then sleep and continue; when run_tee raised because the log file
\* cannot be opened for writing, write_text raises the same error and nothing
\* catches it
RunnerFailed ==
    /\ pc = "except"
    /\ IF raised = "logfile"
       THEN Uncaught /\ UNCHANGED log
       ELSE /\ log' = <<ErrorMarker>>
            /\ pc' = "sleep"
            /\ UNCHANGED <<exitcode, outcome>>
    /\ UNCHANGED <<behaviour, env, ledger, complete0, prd, i>>
    /\ UNCHANGED <<procVars, elapsed, combined, rc, timedout, raised>>
    /\ UNCHANGED <<completed, doneSince>>
    /\ UNCHANGED <<fsVars, auxVars>>

\* EVALUATE_STOP returning the runner's exit code when it is not zero
EvaluateStopOnExitCode ==
    /\ pc = "evaluate"
    /\ LET r == load_json(ledger)
       IN  IF rc # 0
           THEN Return(1, "crash") /\ UNCHANGED <<ledger, prd>>
           ELSE IF SentinelSearch(combined)
           THEN Return(0, "sentinel") /\ UNCHANGED <<ledger, prd>>
           ELSE IF r.raises
           THEN Uncaught /\ UNCHANGED <<ledger, prd>>
           ELSE /\ ledger' = r.file
                /\ prd' = r.doc
                /\ IF prd_done(r.doc)
                   THEN Return(0, "alldone_prd")
                   ELSE pc' = "sleep" /\ UNCHANGED <<exitcode, outcome>>
    /\ UNCHANGED <<behaviour, env, complete0, i, completed, doneSince>>
    /\ UNCHANGED <<procVars, teeVars>>
    /\ UNCHANGED <<fsVars, auxVars>>

\* EVALUATE_STOP: the sentinel search, then the reloaded ledger
EvaluateStop ==
    /\ pc = "evaluate"
    /\ LET r == load_json(ledger)
       IN  IF SentinelSearch(combined)
           THEN Return(0, "sentinel") /\ UNCHANGED <<ledger, prd>>
           ELSE IF r.raises
           THEN Uncaught /\ UNCHANGED <<ledger, prd>>
           ELSE /\ ledger' = r.file
                /\ prd' = r.doc
                /\ IF prd_done(r.doc)
                   THEN Return(0, "alldone_prd")
                   ELSE pc' = "sleep" /\ UNCHANGED <<exitcode, outcome>>
    /\ UNCHANGED <<behaviour, env, complete0, i, completed, doneSince>>
    /\ UNCHANGED <<procVars, teeVars>>
    /\ UNCHANGED <<fsVars, auxVars>>

\* sleep(behaviour.sleep) at the end of the loop body
Sleep ==
    /\ pc = "sleep"
    /\ pc' = "for"
    /\ completed' = completed + 1
    /\ UNCHANGED <<behaviour, env, ledger, complete0, prd, i, exitcode, outcome>>
    /\ UNCHANGED <<procVars, teeVars, doneSince>>
    /\ UNCHANGED <<fsVars, auxVars>>

\* ------------------------------------------------- the runner process
Attached == i \in alive /\ pc \in TeePcs

\* the process run_tee reads from writes a line
ProcWrite(line) ==
    /\ Attached
    /\ stdoutOpen
    /\ written < MaxLines
    /\ pipe' = Append(pipe, line)
    /\ written' = written + 1
    /\ UNCHANGED <<behaviour, env, ledger, complete0, ctlVars, teeVars, doneSince>>
    /\ UNCHANGED <<alive, launches, stdoutOpen, status, returncode>>
    /\ UNCHANGED <<fsVars, auxVars>>

\* it closes its output stream and keeps running
ProcCloseStdout ==
    /\ Attached
    /\ stdoutOpen
    /\ stdoutOpen' = FALSE
    /\ UNCHANGED <<behaviour, env, ledger, complete0, ctlVars, teeVars, doneSince>>
    /\ UNCHANGED <<alive, launches, pipe, written, status, returncode>>
    /\ UNCHANGED <<fsVars, auxVars>>

\* it exits: by itself with status 0 or 1, or after proc.terminate() by the
\* signal or with the status its handler chooses
ExitStatuses == IF pc = "tee_grace" THEN {0, 1, SIGTERM} ELSE {0, 1}

ProcExit(s) ==
    /\ Attached
    /\ s \in ExitStatuses
    /\ alive' = alive \ {i}
    /\ status' = s
    /\ stdoutOpen' = FALSE
    /\ UNCHANGED <<behaviour, env, ledger, complete0, ctlVars, teeVars, doneSince>>
    /\ UNCHANGED <<launches, pipe, written, returncode>>
    /\ UNCHANGED <<fsVars, auxVars>>

\* a process run_tee no longer waits for exits
OrphanExit(c) ==
    /\ c \in alive
    /\ pc # "stopped"
    /\ ~(c = i /\ pc \in TeePcs)
    /\ alive' = alive \ {c}
    /\ UNCHANGED <<behaviour, env, ledger, complete0, ctlVars, teeVars, doneSince>>
    /\ UNCHANGED <<launches, stdoutOpen, pipe, written, status, returncode>>
    /\ UNCHANGED <<fsVars, auxVars>>

\* a running process rewrites, corrupts or deletes prd.json; doneSince
\* records the cycle whose run_tee call was under way when the ledger was
\* made complete, for as long as it stays complete
ProcEditLedger(file) ==
    /\ alive # {}
    /\ pc # "stopped"
    /\ file # ledger
    /\ ledger' = file
    /\ doneSince' = IF Complete(file) /\ pc \in TeePcs THEN i ELSE 0
    /\ UNCHANGED <<behaviour, env, complete0, ctlVars, procVars, teeVars>>
    /\ UNCHANGED <<fsVars, auxVars>>

Next ==
    \/ Start
    \/ ResolveRunner
    \/ FirstLoad
    \/ MaybeArchive
    \/ ResolveBranch
    \/ ForNext
    \/ CheckDone
    \/ BuildCommand
    \/ RunTeeLaunch
    \/ RunTeeTop
    \/ RunTeeGrace
    \/ RunTeeRead
    \/ RunTeePoll
    \/ Tick
    \/ RunnerFailed
    \/ EvaluateStop
    \/ Sleep
    \/ \E line \in OutputLines : ProcWrite(line)
    \/ ProcCloseStdout
    \/ \E s \in {0, 1, SIGTERM} : ProcExit(s)
    \/ \E c \in 1..MaxIters : OrphanExit(c)
    \/ \E file \in LedgerFiles : ProcEditLedger(file)

Spec == Init /\ [][Next]_vars

\* ------------------------------------------------------------ properties
\* What the properties mean by their own words, stated without the
\* operators of the model above.

\* the run is neither --init nor --check
NormalRun == ~behaviour.init /\ ~behaviour.check

\* the environment preconditions hold
PrecondOK ==
    /\ env.gitrepo
    /\ env.exefound
    /\ behaviour.runner = "custom" => behaviour.customcmd

\* a ledger file is incomplete: it is read (or created from the template)
\* without an error and is not complete
Incomplete(file) == file.kind # "malformed" /\ ~Complete(file)

\* the sentinel occurs in the lines: its opening tag ends one line and the
\* rest of it starts the next
HasSentinel(lines) ==
    \E k \in DOMAIN lines :
        k + 1 \in DOMAIN lines /\ lines[k] = OpenLine /\ lines[k + 1] = CloseLine

\* entry() takes a step
Moves == pc' # pc

\* C1 as stated: when the ledger is complete at the start of a normal run
\* with its preconditions satisfied, no runner is ever launched and the run
\* stops in its first cycle with exit code 0, for every iteration budget.
C1_Original ==
    (NormalRun /\ PrecondOK /\ complete0)
        => /\ launches = 0
           /\ pc = "stopped" => (exitcode = 0 /\ outcome = "alldone" /\ i = 1)

\* C1 amended: the same for every iteration budget of at least 1: the run
\* never gets past CHECK_DONE of cycle 1, launches nothing and stops there
\* with exit code 0.
C1_Amended ==
    (NormalRun /\ PrecondOK /\ complete0 /\ behaviour.maxiters >= 1)
        => /\ launches = 0
           /\ i <= 1
           /\ pc \in {"start", "resolve", "mode", "archive", "branch", "for",
                     "check_done", "stopped"}
           /\ pc = "stopped" => (exitcode = 0 /\ outcome = "alldone" /\ i = 1)

C1_Witness ==
    /\ NormalRun /\ PrecondOK /\ complete0
    /\ behaviour.maxiters >= 2
    /\ pc = "stopped" /\ outcome = "alldone" /\ exitcode = 0 /\ i = 1

\* C2: when run_tee has returned and the sentinel occurs anywhere in the
\* combined output (in any letter case), the next step of entry() ends the
\* run with exit code 0, whatever the exit code of the runner and whatever
\* the ledger holds, and no further cycle is started.
C2_SentinelStops ==
    [][(pc = "evaluate" /\ Moves /\ HasSentinel(combined))
          => /\ pc' = "stopped"
             /\ exitcode' = 0
             /\ i' = i
             /\ launches' = launches]_vars

C2_Witness ==
    /\ pc = "stopped" /\ outcome = "sentinel" /\ exitcode = 0
    /\ rc = 1
    /\ ledger.kind = "malformed"
    /\ i < behaviour.maxiters

\* C3: once a runner process has made the ledger complete during a cycle
\* (and it has stayed complete), the run ends with the success outcome, exit
\* code 0, whatever happened to execute in that cycle.
C3_LedgerStops ==
    (pc = "stopped" /\ doneSince # 0 /\ Complete(ledger))
        => (outcome \in Success /\ exitcode = 0)

\* C4: the step entry() takes after run_tee has returned is decided by the
\* sentinel and the ledger alone, for every exit code of the runner: with no
\* sentinel and an incomplete ledger it goes to sleep without an exit code,
\* from the sleep it returns to the loop head, and with budget left the
\* loop head starts the next cycle.
C4_ExitCodeIgnored ==
    [][/\ (pc = "evaluate" /\ Moves) =>
            /\ HasSentinel(combined) => (pc' = "stopped" /\ exitcode' = 0)
            /\ (~HasSentinel(combined) /\ Complete(ledger))
                  => (pc' = "stopped" /\ exitcode' = 0)
            /\ (~HasSentinel(combined) /\ ledger.kind = "malformed")
                  => (pc' = "stopped" /\ outcome' = "crash")
            /\ (~HasSentinel(combined) /\ Incomplete(ledger))
                  => (pc' = "sleep" /\ exitcode' = NoCode)
       /\ (pc = "sleep" /\ Moves) => (pc' = "for" /\ exitcode' = NoCode)
       /\ (pc = "for" /\ Moves /\ i < behaviour.maxiters)
             => (pc' = "check_done" /\ i' = i + 1 /\ exitcode' = NoCode)]_vars

C4_Witness ==
    /\ pc = "check_done" /\ i = 2
    /\ raised = "none" /\ ~timedout
    /\ rc = 1
    /\ ~HasSentinel(combined)

LoopPcs == {"for", "check_done", "build", "execute", "except", "evaluate", "sleep",
            "tee_top", "tee_read", "tee_poll", "tee_grace"}

\* C5: with a budget of N the run never launches more than N runner
\* processes and never starts more than N cycles, and the loop ends with the
\* exhausted outcome (exit code 1) exactly when N loop bodies have run to
\* their end and no stop condition was found true.
C5_Budget ==
    [][/\ launches' <= behaviour.maxiters
       /\ i' <= behaviour.maxiters
       /\ completed' <= i'
       /\ (pc \in LoopPcs /\ pc' = "stopped") =>
             /\ (outcome' = "exhausted")
                   <=> (completed' = behaviour.maxiters /\ outcome' \notin Success)
             /\ (outcome' = "exhausted") => exitcode' = 1]_vars

C5_Witness ==
    /\ pc = "stopped" /\ outcome = "exhausted" /\ exitcode = 1
    /\ behaviour.maxiters >= 2
    /\ launches = behaviour.maxiters
    /\ completed = behaviour.maxiters

\* the steps of run_tee
SupervisorStep == RunTeeTop \/ RunTeeGrace \/ RunTeeRead \/ RunTeePoll

\* run_tee runs on without pause, and time passes; nothing obliges the
\* runner process to write or to exit
FairSpec == Spec /\ WF_vars(SupervisorStep) /\ WF_vars(Tick)

\* C6: with a timeout configured, once more than the timeout has elapsed
\* with the runner process still running, run_tee eventually gets out of
\* its read loop (the timeout branch ends the process and run_tee returns),
\* whatever the process writes or does not write.
C6_TimeoutTerminates ==
    (behaviour.timeout # NoTimeout /\ Attached /\ elapsed > behaviour.timeout)
        ~> (pc \notin TeePcs)

\* C7 as stated: a run_tee call that ended its process on the timeout
\* returns a non-zero exit code and a combined output made of the lines
\* captured before the timeout followed by the timeout marker.
C7_Original ==
    (pc = "evaluate" /\ timedout)
        => /\ rc # 0
           /\ combined # <<>>
           /\ combined[Len(combined)] = TimeoutMarker
           /\ SubSeq(combined, 1, Len(combined) - 1) = SubSeq(log, 1, Len(log) - 1)

\* C7 amended: such a call returns the status the ended process reports
\* (the signal that ended it, or the status it exited with itself, which
\* may be 0) and a combined output made of exactly the lines captured
\* before the timeout; the marker is the last line of the iteration log
\* only.
C7_Amended ==
    (pc = "evaluate" /\ timedout)
        => /\ rc = status
           /\ rc \in {0, 1, SIGTERM, SIGKILL}
           /\ log = Append(combined, TimeoutMarker)
           /\ \A k \in DOMAIN combined : combined[k] # TimeoutMarker

C7_Witness ==
    /\ pc = "evaluate" /\ timedout
    /\ rc = 0
    /\ combined # <<>>

\* C8: after the timeout branch has run in a cycle the iteration log of
\* that cycle holds the timeout marker, and with no sentinel and an
\* incomplete ledger entry() goes to sleep without an exit code, from the
\* sleep to the loop head, and with budget left to the next cycle.
C8_TimeoutIsLocal ==
    [][/\ timedout' => (\E k \in DOMAIN log' : log'[k] = TimeoutMarker)
       /\ (timedout /\ pc = "evaluate" /\ Moves
              /\ ~HasSentinel(combined) /\ Incomplete(ledger))
             => (pc' = "sleep" /\ exitcode' = NoCode)
       /\ (timedout /\ pc = "sleep" /\ Moves) => (pc' = "for" /\ exitcode' = NoCode)
       /\ (timedout /\ pc = "for" /\ Moves /\ i < behaviour.maxiters)
             => (pc' = "check_done" /\ i' = i + 1 /\ exitcode' = NoCode)]_vars

C8_Witness ==
    /\ pc = "check_done" /\ i = 2
    /\ timedout
    /\ \E k \in DOMAIN log : log[k] = TimeoutMarker

\* C9: when run_tee raises, entry() writes the error marker to the
\* iteration log of the cycle and goes to sleep with the run still going,
\* then returns to the loop head.
C9_FailureRecovered ==
    [][/\ (pc = "except" /\ Moves)
             => (log' = <<ErrorMarker>> /\ pc' = "sleep" /\ exitcode' = NoCode)
       /\ (raised # "none" /\ pc = "sleep" /\ Moves)
             => (pc' = "for" /\ exitcode' = NoCode)]_vars

\* C10: at most one runner process is alive at any time.
C10_OneProcess == Cardinality(alive) <= 1

\* ------------------------------------------- the ledger functions alone
\* the loop controller is not running; one function is applied to arg
Parked ==
    /\ behaviour = [init |-> FALSE, check |-> FALSE, dryrun |-> TRUE, maxiters |-> 1,
                    timeout |-> NoTimeout, runner |-> "opencode", customcmd |-> FALSE]
    /\ env = [gitrepo |-> TRUE, exefound |-> TRUE, archfail |-> "none"]
    /\ ledger = AbsentFile
    /\ complete0 = FALSE
    /\ Fresh
    /\ promptfile = NoFile
    /\ progressfile = NoFile
    /\ agentsfile = NoFile
    /\ lastbranchfile = NoFile
    /\ lastbranch0 = NoFile
    /\ logsdir = {}
    /\ res = Idle

parkedVars ==
    <<behaviour, env, ledger, complete0, prd, i, exitcode, outcome, completed,
      doneSince, procVars, teeVars, fsVars, lastbranch0, runs>>

StoryLists == UNION {[1..n -> BOOLEAN] : n \in 0..MaxStories}

\* the documents: under each key no list, or a list of up to MaxStories stories
AllDocs ==
    {Doc(hu, us, hs, st) : hu \in BOOLEAN, us \in StoryLists,
                           hs \in BOOLEAN, st \in StoryLists}

\* what prd.json can hold
AllLedgerFiles ==
    {AbsentFile, UndecodableFile, MalformedFile, JsonFile(JsonArray)}
        \cup {JsonFile(d) : d \in AllDocs}

LedgerInit ==
    /\ Parked
    /\ pc = "load"
    /\ arg \in AllLedgerFiles

\* prd = load_json(prdfile, PRDTEMPLATE)
Load ==
    /\ pc = "load"
    /\ res' = load_json(arg)
    /\ pc' = "loaded"
    /\ UNCHANGED <<parkedVars, arg>>

\* prd_done(prd), for a prd that is an object
IsDone ==
    /\ pc = "loaded"
    /\ ~res.raises
    /\ res.doc # JsonArray
    /\ res' = [done |-> prd_done(res.doc), doc |-> res.doc]
    /\ pc' = "judged"
    /\ UNCHANGED <<parkedVars, arg>>

LedgerNext == Load \/ IsDone

LedgerSpec == LedgerInit /\ [][LedgerNext]_vars

\* the file holds a ledger document: a JSON text that is an object
LedgerDocument(file) == file.kind = "json" /\ file.doc # JsonArray

\* C11: load on a missing path writes the template to the path and returns
\* a document equal to the template; load on an existing file that does not
\* hold a ledger document fails with the data error (RuntimeError); load
\* never changes the content of an existing file.
C11_LoadContract ==
    pc = "loaded" =>
        /\ arg.kind = "absent"
              => (~res.raises /\ res.doc = PRDTEMPLATE /\ res.file = JsonFile(PRDTEMPLATE))
        /\ (arg.kind # "absent" /\ ~LedgerDocument(arg)) => res.error = "RuntimeError"
        /\ arg.kind # "absent" => res.file = arg

\* C12: for every ledger document the result of prd_done is TRUE exactly
\* when the story sequence (the list under userStories when there is one,
\* otherwise the list under stories) is non-empty and every story in it
\* passes; with an empty or missing story sequence it is FALSE.
C12_DoneIff ==
    pc = "judged" =>
        /\ res.done <=> Complete(arg)
        /\ (~arg.doc.hasUserStories /\ ~arg.doc.hasStories) => ~res.done
        /\ (arg.doc.hasUserStories /\ arg.doc.userStories = <<>>) => ~res.done

C12_Witness ==
    /\ pc = "judged"
    /\ res.done
    /\ ~arg.doc.hasUserStories
    /\ Len(arg.doc.stories) = MaxStories

TextFiles(boilerplate, other) == {NoFile, File(boilerplate), File(other)}

FileSets ==
    [prompt : TextFiles(PROMPTTEMPLATE, Edited),
     prd : {AbsentFile, MalformedFile, JsonFile(PRDTEMPLATE)},
     progress : TextFiles(ProgressHeader(0), Notes),
     agents : TextFiles(AgentsBoilerplate, Edited)]

FilesInit ==
    /\ Parked
    /\ pc = "ensure"
    /\ arg \in FileSets

\* ensure_files(promptfile, prdfile, progressfile, agentsfile)
EnsureFiles ==
    /\ pc = "ensure"
    /\ res' = ensure_files(arg, date)
    /\ pc' = "ensured"
    /\ UNCHANGED <<parkedVars, arg>>

\* the same call on the files the first call left, at a later time
EnsureFilesAgain ==
    /\ pc = "ensured"
    /\ arg' = res
    /\ res' = ensure_files(res, date + 1)
    /\ pc' = "again"
    /\ UNCHANGED parkedVars

FilesNext == EnsureFiles \/ EnsureFilesAgain

FilesSpec == FilesInit /\ [][FilesNext]_vars

\* C14: ensure_files gives each of the four files its boilerplate when the
\* file is absent and leaves the content of every file that is there as it
\* is; a second call changes nothing.
C14_EnsureFiles ==
    /\ pc = "ensured" =>
          /\ res.prompt = IF arg.prompt = NoFile THEN File(PROMPTTEMPLATE) ELSE arg.prompt
          /\ res.prd = IF arg.prd = AbsentFile THEN JsonFile(PRDTEMPLATE) ELSE arg.prd
          /\ res.progress = IF arg.progress = NoFile THEN File(ProgressHeader(date))
                            ELSE arg.progress
          /\ res.agents = IF arg.agents = NoFile THEN File(AgentsBoilerplate)
                          ELSE arg.agents
    /\ pc = "again" => res = arg

C14_Witness ==
    /\ pc = "again"
    /\ res.progress = File(ProgressHeader(date))
    /\ res.prd = JsonFile(PRDTEMPLATE)
    /\ res.agents = File(Edited)

\* --------------------------------------- runs one after the other
\* The program is run again and again in one repository; between two runs
\* the user changes the branch prd.json names, and days pass. The runs are
\* dry runs, or runs that find the ledger complete: none launches a runner.
BranchKeys ==
    {<<<<"a">>, <<>>>>, <<<<"b">>, <<>>>>, <<<<"ralph", "/", "a">>, <<>>>>,
     <<<<>>, <<"a">>>>, <<<<" ">>, <<"a">>>>, <<<<>>, <<>>>>}

StoreLedgers ==
    {AbsentFile} \cup {JsonFile(OnBranch(d, k[1], k[2])) : d \in LoopDocs, k \in BranchKeys}

StoreMarkers ==
    {NoFile, File(<<"a", "\n">>), File(<<"b", "\n">>), File(<<"ralph", "/", "a", "\n">>),
     File(<<"\n">>)}

StoreBehaviours ==
    {b \in Behaviours : /\ ~b.init /\ ~b.check /\ b.maxiters = 1
                        /\ b.timeout = NoTimeout /\ b.runner = "opencode"}

StoreEnvs == [gitrepo : {TRUE}, exefound : {TRUE}, archfail : {"none"} \cup ArchiveSteps]

StoreInit ==
    /\ behaviour \in StoreBehaviours
    /\ env \in StoreEnvs
    /\ ledger \in StoreLedgers
    /\ behaviour.dryrun \/ Complete(ledger)
    /\ complete0 = Complete(ledger)
    /\ Fresh
    /\ pc = "start"
    /\ promptfile = NoFile
    /\ progressfile \in {NoFile, File(Notes)}
    /\ agentsfile = NoFile
    /\ lastbranchfile \in StoreMarkers
    /\ lastbranch0 = lastbranchfile
    /\ logsdir \in {{}, {"iter-0001.log"}}
    /\ arg = Idle
    /\ res = Idle

\* the program is started again in the repository as the last run left it,
\* once the processes of the last run are gone
NewRun ==
    /\ pc = "stopped"
    /\ runs < MaxRuns
    /\ alive = {}
    /\ launches' = 0
    /\ runs' = runs + 1
    /\ pc' = "start"
    /\ prd' = PRDTEMPLATE
    /\ i' = 0
    /\ exitcode' = NoCode
    /\ outcome' = "running"
    /\ completed' = 0
    /\ doneSince' = 0
    /\ did' = {}
    /\ complete0' = Complete(ledger)
    /\ lastbranch0' = lastbranchfile
    /\ UNCHANGED <<behaviour, env, ledger, teeVars, arg, res>>
    /\ UNCHANGED <<alive, stdoutOpen, pipe, written, status, returncode>>
    /\ UNCHANGED <<promptfile, progressfile, agentsfile, lastbranchfile, logsdir>>
    /\ UNCHANGED <<archive, date, head>>

\* between two runs the user gives prd.json another branch
EditBranch(k) ==
    /\ pc = "stopped"
    /\ runs < MaxRuns
    /\ ledger.kind = "json"
    /\ ledger' = JsonFile(OnBranch(ledger.doc, k[1], k[2]))
    /\ ledger' # ledger
    /\ UNCHANGED <<behaviour, env, complete0, ctlVars, doneSince, procVars, teeVars>>
    /\ UNCHANGED <<fsVars, auxVars>>

\* between two runs a day passes
NextDay ==
    /\ pc = "stopped"
    /\ runs < MaxRuns
    /\ date < MaxDays
    /\ date' = date + 1
    /\ UNCHANGED <<behaviour, env, ledger, complete0, ctlVars, doneSince>>
    /\ UNCHANGED <<procVars, teeVars, auxVars>>
    /\ UNCHANGED <<promptfile, progressfile, agentsfile, lastbranchfile, logsdir>>
    /\ UNCHANGED <<archive, head, did>>

StoreNext ==
    \/ Start
    \/ ResolveRunner
    \/ FirstLoad
    \/ MaybeArchive
    \/ ResolveBranch
    \/ ForNext
    \/ CheckDone
    \/ BuildCommand
    \/ NewRun
    \/ \E k \in BranchKeys : EditBranch(k)
    \/ NextDay

StoreSpec == StoreInit /\ [][StoreNext]_vars

\* the branch a ledger file names: the name under the first branch key that
\* holds one, without the white space around it
BranchOf(file) == IF file.kind = "json" THEN prd_branch(file.doc) ELSE <<>>

\* the branch the marker file records
MarkerBranch == Strip(lastbranchfile.text)

\* the marker and the ledger both name a branch, and not the same one
BranchChanged ==
    /\ lastbranchfile.exists
    /\ BranchOf(ledger) # <<>>
    /\ MarkerBranch # <<>>
    /\ BranchOf(ledger) # MarkerBranch

\* a name that can be the name of a folder
SafeName(name) == name # <<>> /\ \A k \in 1..Len(name) : name[k] \notin Unsafe

\* C15: when the marker and the ledger both name a branch and the two
\* differ, maybe_archive (no step of it failing) leaves an archive directory
\* named by today's date and the sanitized branch of the marker that holds
\* the ledger, the progress log as it was and the iteration logs, and the
\* progress log is then a fresh header; the progress log is never reset
\* without these copies being in the archive. When the two branches are
\* equal, or one is empty, or there is no marker file, the archive and the
\* progress log are left as they are.
C15_Archive ==
    [][(pc = "archive" /\ pc' # pc) =>
          LET dest == [date |-> date, name |-> safe_folder_name(MarkerBranch)]
              held == /\ dest \in DOMAIN archive'
                      /\ archive'[dest].prd = ledger
                      /\ archive'[dest].progress = progressfile
                      /\ logsdir \subseteq archive'[dest].logs
          IN  /\ (BranchChanged /\ env.archfail = "none")
                    => /\ held
                       /\ SafeName(dest.name)
                       /\ progressfile' = File(ProgressHeader(date))
                       /\ pc' = "branch"
              /\ progressfile' # progressfile => (BranchChanged /\ held)
              /\ ~BranchChanged
                    => (archive' = archive /\ progressfile' = progressfile
                           /\ pc' = "branch")]_vars

C15_Witness ==
    /\ pc = "branch"
    /\ "archive" \in did
    /\ lastbranch0 = File(<<"ralph", "/", "a", "\n">>)
    /\ [date |-> date, name |-> <<"a">>] \in DOMAIN archive
    /\ progressfile = File(ProgressHeader(date))
    /\ runs = 1

\* C16: whatever step of the archival fails, the run goes on: the step
\* after maybe_archive is branch resolution, the run has not ended, and the
\* loop head follows.
C16_ArchiveBestEffort ==
    [][/\ (pc = "archive" /\ pc' # pc) => (pc' = "branch" /\ exitcode' = NoCode)
       /\ (pc = "branch" /\ pc' # pc) => (pc' = "for" /\ exitcode' = NoCode)]_vars

\* C17: an archive directory, once an archival has created it, is never
\* written again.
C17_ArchiveImmutable ==
    [][\A d \in DOMAIN archive : d \in DOMAIN archive' /\ archive'[d] = archive[d]]_vars

\* C18 as stated: a run that stops at its first CHECK_DONE because the
\* ledger is complete leaves the marker file as it found it.
C18_Original ==
    (pc = "stopped" /\ outcome = "alldone" /\ i = 1 /\ launches = 0)
        => lastbranchfile = lastbranch0

\* C18 amended: such a run leaves the marker file as it found it only when
\* the ledger it read names no branch; when that ledger names a branch the
\* run has recorded the branch in the marker file before its first
\* CHECK_DONE.
C18_Amended ==
    (pc = "stopped" /\ outcome = "alldone" /\ i = 1 /\ launches = 0)
        => lastbranchfile = IF prd_branch(prd) = <<>> THEN lastbranch0
                            ELSE File(prd_branch(prd) \o <<"\n">>)

C18_Witness ==
    /\ pc = "stopped" /\ outcome = "alldone" /\ i = 1 /\ launches = 0
    /\ ~behaviour.dryrun
    /\ lastbranch0 = NoFile
    /\ lastbranchfile = File(<<"a", "\n">>)

\* ------------------------------------------------- failed preconditions
\* the progress log holds an iteration-started marker
IterationStarted ==
    \E k \in 1..Len(progressfile.text), n \in 1..MaxIters :
        progressfile.text[k] = IterationMarker(n)

\* C19: when the working directory is no git repository, or the runner's
\* executable is not found, or the custom runner has no --custom-cmd, the
\* run ends at start-up and with exit code 2; no runner process is
\* launched, nothing is archived, no branch is checked out or recorded, and
\* no iteration-started marker is in the progress log.
C19_Precondition ==
    ~PrecondOK =>
        /\ pc \in {"start", "resolve", "stopped"}
        /\ pc = "stopped" => (exitcode = 2 /\ i = 0)
        /\ launches = 0
        /\ alive = {}
        /\ did = {}
        /\ archive = NoArchives
        /\ head = <<"main">>
        /\ lastbranchfile = lastbranch0
        /\ ~IterationStarted

C19_Witness ==
    /\ pc = "stopped"
    /\ exitcode = 2
    /\ env.gitrepo
    /\ env.exefound
    /\ behaviour.runner = "custom"
    /\ ~behaviour.customcmd
    /\ progressfile.exists

\* ------------------------------------------------------------ interrupts
\* KeyboardInterrupt reaches the handler around entry(): exit(130)
Interrupt ==
    /\ pc # "stopped"
    /\ Return(130, "interrupted")
    /\ UNCHANGED <<behaviour, env, ledger, complete0, prd, i, completed, doneSince>>
    /\ UNCHANGED <<procVars, teeVars>>
    /\ UNCHANGED <<fsVars, auxVars>>

IntNext == Next \/ Interrupt

IntSpec == Init /\ [][IntNext]_vars

\* C20: a run that has ended with exit code 0 ended by the sentinel, by a
\* complete ledger, or by --init, --check or --dry-run; with exit code 1,
\* by using up its iterations; with exit code 2, by a failed precondition;
\* with exit code 130, by an interrupt. A run ended by an exception nothing
\* catches (a malformed ledger among them) has none of the exit codes 0
\* and 1.
C20_ExitCodes ==
    pc = "stopped" =>
        /\ exitcode = 0 => outcome \in Success \cup {"init", "check", "dryrun"}
        /\ exitcode = 1 => outcome = "exhausted"
        /\ exitcode = 2 => (outcome = "precondition" /\ ~PrecondOK)
        /\ exitcode = 130 => outcome = "interrupted"
        /\ outcome = "crash" => exitcode \notin {0, 1}

\* ------------------------------------------------------ runner_command()
\* A token is a string, held as the sequence of its pieces; a piece is the
\* placeholder or a run of other characters.
Placeholder == "{PROMPT}"
Tok(str) == <<str>>

\* the bootstrap prompt, one piece
BootstrapPrompt == "hello"

\* a path that is None
NoPath == <<>>

\* "{PROMPT}" in token
HasPlaceholder(token) == \E k \in 1..Len(token) : token[k] = Placeholder

\* token.replace("{PROMPT}", bootstrapprompt)
Replace(token, prompt) ==
    [k \in 1..Len(token) |-> IF token[k] = Placeholder THEN prompt ELSE token[k]]

\* cmd += [flag, value] if value
Option(flag, value) == IF value # <<>> THEN <<Tok(flag), value>> ELSE <<>>

\* [str(f) for f in [iterpromptfile, prdfile, progressfile, agentsfile] if f is not None]
RECURSIVE Supplied(_)
Supplied(paths) ==
    IF paths = <<>> THEN <<>>
    ELSE (IF Head(paths) # NoPath THEN <<Head(paths)>> ELSE <<>>) \o Supplied(Tail(paths))

Built(cmd) == [raises |-> FALSE, cmd |-> cmd]
ValueError == [raises |-> TRUE, cmd |-> <<>>]

\* the amp runner
amp_command(b, prompt) ==
    Built(<<Tok("amp")>>
          \o (IF b.ampallowall THEN <<Tok("--dangerously-allow-all")>> ELSE <<>>)
          \o <<Tok("-x"), Tok(prompt)>> \o b.runnerargs)

\* the opencode runner without "--" before the prompt
opencode_command_no_separator(b, prompt, paths) ==
    Built(<<Tok("opencode"), Tok("run"), Tok("--format"), b.opencodeformat>>
          \o Option("--attach", b.opencodeattach)
          \o Option("--model", b.opencodemodel)
          \o Option("--agent", b.opencodeagent)
          \o (IF Supplied(paths) # <<>> THEN <<Tok("--file")>> \o Supplied(paths) ELSE <<>>)
          \o <<Tok(prompt)>> \o b.runnerargs)

\* the opencode runner
opencode_command(b, prompt, paths) ==
    Built(<<Tok("opencode"), Tok("run"), Tok("--format"), b.opencodeformat>>
          \o Option("--attach", b.opencodeattach)
          \o Option("--model", b.opencodemodel)
          \o Option("--agent", b.opencodeagent)
          \o (IF Supplied(paths) # <<>> THEN <<Tok("--file")>> \o Supplied(paths) ELSE <<>>)
          \o <<Tok("--"), Tok(prompt)>> \o b.runnerargs)

\* the custom runner appending the prompt whether or not it was used
custom_command_always_append(b, prompt) ==
    IF b.customcmd = <<>> THEN ValueError
    ELSE Built([k \in 1..Len(b.customcmd) |->
                   IF HasPlaceholder(b.customcmd[k])
                   THEN Replace(b.customcmd[k], prompt) ELSE b.customcmd[k]]
               \o <<Tok(prompt)>> \o b.runnerargs)

\* the custom runner: every token that holds the placeholder is replaced;
\* the prompt is appended when no token held it
custom_command(b, prompt) ==
    IF b.customcmd = <<>> THEN ValueError
    ELSE LET used == \E k \in 1..Len(b.customcmd) : HasPlaceholder(b.customcmd[k])
         IN  Built([k \in 1..Len(b.customcmd) |->
                       IF HasPlaceholder(b.customcmd[k])
                       THEN Replace(b.customcmd[k], prompt) ELSE b.customcmd[k]]
                   \o (IF used THEN <<>> ELSE <<Tok(prompt)>>) \o b.runnerargs)

\* runner_command(behaviour, bootstrapprompt, iterpromptfile, prdfile,
\* progressfile, agentsfile)
runner_command(b, prompt, paths) ==
    IF b.runner = "amp" THEN amp_command(b, prompt)
    ELSE IF b.runner = "opencode" THEN opencode_command(b, prompt, paths)
    ELSE IF b.runner = "custom" THEN custom_command(b, prompt)
    ELSE ValueError

\* the four files in the order of the parameters; each is a path or None
IterPromptPath == Tok("iteration_prompt.md")
PrdPath == Tok("prd.json")
ProgressPath == Tok("progress.txt")
AgentsPath == Tok("AGENTS.md")
PathLists ==
    {<<a, b, c, d>> : a \in {NoPath, IterPromptPath}, b \in {NoPath, PrdPath},
                      c \in {NoPath, ProgressPath}, d \in {NoPath, AgentsPath}}

RunnerArgs == {<<>>, <<Tok("-v")>>, <<Tok("-v"), Tok("-q")>>}

Pieces == {Placeholder, "--msg="}
Tokens == UNION {[1..n -> Pieces] : n \in 1..MaxPieces}
Templates == UNION {[1..n -> Tokens] : n \in 0..MaxTokens}

NoRunnerOptions ==
    [ampallowall |-> FALSE, opencodeformat |-> Tok("default"), opencodeattach |-> <<>>,
     opencodemodel |-> <<>>, opencodeagent |-> <<>>, customcmd |-> <<>>]

\* the behaviours runner_command is applied to, by runner
AmpInputs ==
    {[NoRunnerOptions EXCEPT !.ampallowall = a] : a \in BOOLEAN}
OpencodeInputs ==
    {[NoRunnerOptions EXCEPT !.opencodeformat = f, !.opencodeattach = a,
                             !.opencodemodel = m, !.opencodeagent = g] :
        f \in {Tok("default"), Tok("json")}, a \in {<<>>, Tok("http://host")},
        m \in {<<>>, Tok("some/model")}, g \in {<<>>, Tok("build")}}
CustomInputs ==
    {[NoRunnerOptions EXCEPT !.customcmd = t] : t \in Templates}

CommandInputs ==
    {[behaviour |-> [runner |-> r, runnerargs |-> ra] @@ o, paths |-> ps] :
        r \in {"amp"}, ra \in RunnerArgs, o \in AmpInputs, ps \in {<<NoPath, NoPath, NoPath, NoPath>>}}
    \cup
    {[behaviour |-> [runner |-> r, runnerargs |-> ra] @@ o, paths |-> ps] :
        r \in {"opencode"}, ra \in RunnerArgs, o \in OpencodeInputs, ps \in PathLists}
    \cup
    {[behaviour |-> [runner |-> r, runnerargs |-> ra] @@ o, paths |-> ps] :
        r \in {"custom"}, ra \in RunnerArgs, o \in CustomInputs,
        ps \in {<<IterPromptPath, PrdPath, ProgressPath, AgentsPath>>}}

CommandInit ==
    /\ Parked
    /\ pc = "command"
    /\ arg \in CommandInputs

\* cmd = runner_command(behaviour, bootstrapprompt, ...)
RunnerCommand ==
    /\ pc = "command"
    /\ res' = runner_command(arg.behaviour, BootstrapPrompt, arg.paths)
    /\ pc' = "built"
    /\ UNCHANGED <<parkedVars, arg>>

CommandNext == RunnerCommand

CommandSpec == CommandInit /\ [][CommandNext]_vars

\* the paths that are not None, in the order instructions, ledger, progress
\* log, notes
AttachedFiles(paths) == SelectSeq(paths, LAMBDA f : f # NoPath)

\* the last n tokens of a vector
Ending(cmd, n) == SubSeq(cmd, Len(cmd) - n + 1, Len(cmd))

\* C21: the opencode vector is: the binary, "run", "--format" and the
\* format, then --attach, --model and --agent each with its value and only
\* if configured, then (only if a file is supplied) "--file" and the
\* supplied files in the order instructions, ledger, progress log, notes,
\* then "--", then the bootstrap prompt, then the runner arguments. With
\* files attached "--" stands between the last file and the prompt; with
\* two files, no options and no runner arguments the vector ends in
\* "--file", file1, file2, "--", prompt.
C21_OpencodeVector ==
    (pc = "built" /\ arg.behaviour.runner = "opencode") =>
        LET b == arg.behaviour
            files == AttachedFiles(arg.paths)
            opts == (IF b.opencodeattach # <<>>
                     THEN <<Tok("--attach"), b.opencodeattach>> ELSE <<>>)
                    \o (IF b.opencodemodel # <<>>
                        THEN <<Tok("--model"), b.opencodemodel>> ELSE <<>>)
                    \o (IF b.opencodeagent # <<>>
                        THEN <<Tok("--agent"), b.opencodeagent>> ELSE <<>>)
            head4 == <<Tok("opencode"), Tok("run"), Tok("--format"), b.opencodeformat>>
            fileend == 4 + Len(opts) + 1 + Len(files)
        IN  /\ ~res.raises
            /\ res.cmd = head4 \o opts
                         \o (IF files = <<>> THEN <<>> ELSE <<Tok("--file")>> \o files)
                         \o <<Tok("--"), Tok(BootstrapPrompt)>> \o b.runnerargs
            /\ files # <<>> =>
                  /\ res.cmd[fileend] = files[Len(files)]
                  /\ res.cmd[fileend + 1] = Tok("--")
                  /\ res.cmd[fileend + 2] = Tok(BootstrapPrompt)
            /\ (Len(files) = 2 /\ opts = <<>> /\ b.runnerargs = <<>>) =>
                  Ending(res.cmd, 5) = <<Tok("--file"), files[1], files[2], Tok("--"),
                                         Tok(BootstrapPrompt)>>

C21_Witness ==
    /\ pc = "built"
    /\ arg.behaviour.runner = "opencode"
    /\ arg.paths = <<NoPath, PrdPath, NoPath, AgentsPath>>
    /\ arg.behaviour.opencodemodel = <<>>
    /\ arg.behaviour.opencodeattach = <<>>
    /\ arg.behaviour.opencodeagent = <<>>
    /\ arg.behaviour.runnerargs = <<>>
    /\ Ending(res.cmd, 5) = <<Tok("--file"), PrdPath, AgentsPath, Tok("--"),
                              Tok(BootstrapPrompt)>>

\* the tokens of a template that contain the placeholder
Holders(template) ==
    {k \in 1..Len(template) : \E j \in 1..Len(template[k]) : template[k][j] = Placeholder}

\* a token with the bootstrap prompt in the place of the placeholder
Substituted(token) ==
    [j \in 1..Len(token) |-> IF token[j] = Placeholder THEN BootstrapPrompt ELSE token[j]]

\* C22: for a custom runner with a template: when exactly one token holds
\* the placeholder, the vector is the template with the placeholder in that
\* token replaced by the bootstrap prompt, the other tokens unchanged; when
\* no token holds it, the vector is the template and then the prompt as one
\* more token; the runner arguments follow, as given and in order.
C22_CustomVector ==
    (pc = "built" /\ arg.behaviour.runner = "custom" /\ arg.behaviour.customcmd # <<>>) =>
        LET template == arg.behaviour.customcmd
            n == Len(template)
        IN  /\ ~res.raises
            /\ Cardinality(Holders(template)) = 1 =>
                  /\ Len(res.cmd) = n + Len(arg.behaviour.runnerargs)
                  /\ \A k \in 1..n :
                        res.cmd[k] = IF k \in Holders(template)
                                     THEN Substituted(template[k]) ELSE template[k]
                  /\ Ending(res.cmd, Len(arg.behaviour.runnerargs)) = arg.behaviour.runnerargs
            /\ Holders(template) = {} =>
                  res.cmd = template \o <<Tok(BootstrapPrompt)>> \o arg.behaviour.runnerargs

C22_Witness ==
    /\ pc = "built"
    /\ arg.behaviour.runner = "custom"
    /\ arg.behaviour.customcmd = <<<<"--msg=">>, <<"--msg=", Placeholder>>>>
    /\ arg.behaviour.runnerargs = <<Tok("-v"), Tok("-q")>>
    /\ res.cmd = <<<<"--msg=">>, <<"--msg=", BootstrapPrompt>>, Tok("-v"), Tok("-q")>>

\* C25: for a custom runner whose template has several tokens that hold the
\* placeholder, only the first of them has the placeholder replaced by the
\* bootstrap prompt; the later ones are in the vector as they are in the
\* template.
C25_FirstTokenOnly ==
    (pc = "built" /\ arg.behaviour.runner = "custom"
        /\ Cardinality(Holders(arg.behaviour.customcmd)) >= 2) =>
        LET template == arg.behaviour.customcmd
            first == CHOOSE k \in Holders(template) : \A j \in Holders(template) : k <= j
        IN  /\ ~res.raises
            /\ res.cmd[first] = Substituted(template[first])
            /\ \A k \in Holders(template) \ {first} : res.cmd[k] = template[k]

Markers(file) == {k \in 1..Len(file.text) : \E n \in 1..MaxIters : file.text[k] = IterationMarker(n)}

\* cycle i reaches EXECUTE in this step
ReachesExecute == pc # "execute" /\ pc' = "execute"

\* the loop is running: start-up, archival and branch resolution are over
InLoop == pc \notin {"start", "resolve", "mode", "archive", "branch", "stopped"}

\* C26: a step appends an iteration-started marker to the progress log
\* exactly when a cycle reaches EXECUTE; the marker is that of the cycle,
\* it is the last line of the log, and the launch of the cycle comes after
\* it; a step of a cycle that stops at CHECK_DONE, and every step of a dry
\* run, appends none. So the markers appended are as many as the launches
\* attempted. A step of the loop leaves what the log already held in place.
C26_MarkerPerLaunch ==
    [][/\ Cardinality(Markers(progressfile'))
            = Cardinality(Markers(progressfile)) + (IF ReachesExecute THEN 1 ELSE 0)
       /\ ReachesExecute
            => /\ progressfile'.text = progressfile.text \o <<IterationMarker(i)>>
               /\ ~behaviour.dryrun
               /\ launches' = launches
       /\ launches' # launches
            => /\ pc = "execute"
               /\ launches' = launches + 1
               /\ progressfile.text[Len(progressfile.text)] = IterationMarker(i)
               /\ Cardinality(Markers(progressfile)) = i
       /\ (InLoop /\ progressfile' # progressfile)
            => SubSeq(progressfile'.text, 1, Len(progressfile.text)) = progressfile.text
       /\ pc = "check_done" => progressfile' = progressfile]_vars

C26_Witness ==
    /\ pc = "stopped"
    /\ i = 2
    /\ launches = 1
    /\ Cardinality(Markers(progressfile)) = 2
    /\ "archive" \in did

\* ------------------------------------- the branch, from one run to the next
\* Whole runs one after the other, each of one cycle, whose runner process
\* may give prd.json another branch while it runs.
BranchLedgers == {JsonFile(OnBranch(PRDTEMPLATE, b, <<>>)) : b \in {<<"a">>, <<"b">>}}

BranchInit ==
    /\ behaviour = [init |-> FALSE, check |-> FALSE, dryrun |-> FALSE, maxiters |-> 1,
                    timeout |-> NoTimeout, runner |-> "opencode", customcmd |-> FALSE]
    /\ env = [gitrepo |-> TRUE, exefound |-> TRUE, archfail |-> "none"]
    /\ ledger \in BranchLedgers
    /\ complete0 = Complete(ledger)
    /\ Fresh
    /\ pc = "start"
    /\ promptfile = NoFile
    /\ progressfile = NoFile
    /\ agentsfile = NoFile
    /\ lastbranchfile \in {NoFile, File(<<"a", "\n">>), File(<<"b", "\n">>)}
    /\ lastbranch0 = lastbranchfile
    /\ logsdir = {}
    /\ arg = Idle
    /\ res = Idle

\* the running process gives prd.json another branch
ProcEditBranch(file) ==
    /\ alive # {}
    /\ pc # "stopped"
    /\ file # ledger
    /\ ledger' = file
    /\ UNCHANGED <<behaviour, env, complete0, ctlVars, doneSince, procVars, teeVars>>
    /\ UNCHANGED <<fsVars, auxVars>>

BranchNext ==
    \/ Start
    \/ ResolveRunner
    \/ FirstLoad
    \/ MaybeArchive
    \/ ResolveBranch
    \/ ForNext
    \/ CheckDone
    \/ BuildCommand
    \/ RunTeeLaunch
    \/ RunTeeTop
    \/ RunTeeRead
    \/ RunTeePoll
    \/ RunnerFailed
    \/ EvaluateStop
    \/ Sleep
    \/ \E line \in OutputLines : ProcWrite(line)
    \/ ProcCloseStdout
    \/ \E st \in {0, 1} : ProcExit(st)
    \/ \E file \in BranchLedgers : ProcEditBranch(file)
    \/ NewRun

BranchSpec == BranchInit /\ [][BranchNext]_vars

\* the branch the marker file held when the run started
PreviousBranch == Strip(lastbranch0.text)

\* C24: in a run, the archive check comes after the first ledger load,
\* branch resolution comes after the archive check and before the first
\* cycle, and each happens once. The archive check archives exactly when
\* the ledger's branch and the marker the previous run left both name a
\* branch and differ, and it leaves the marker alone; branch resolution
\* then writes the ledger's branch into the marker. No step of the loop
\* writes the marker or archives, whatever the runner process does to the
\* ledger's branch.
C24_BranchOnce ==
    [][/\ pc' = "archive" => pc \in {"mode", "archive"}
       /\ pc' = "branch" => pc \in {"archive", "branch"}
       /\ (pc = "branch" /\ pc' # pc) => (pc' = "for" /\ i' = 0)
       /\ pc = "archive"
            => /\ lastbranchfile' = lastbranchfile
               /\ lastbranchfile = lastbranch0
               /\ pc' # pc =>
                    (archive' # archive
                        <=> /\ lastbranch0.exists
                            /\ BranchOf(ledger) # <<>>
                            /\ PreviousBranch # <<>>
                            /\ BranchOf(ledger) # PreviousBranch)
       /\ lastbranchfile' # lastbranchfile
            => /\ pc = "branch"
               /\ lastbranchfile'.text = BranchOf(ledger) \o <<"\n">>
       /\ (pc = "branch" /\ BranchOf(ledger) # <<>>)
            => lastbranchfile' = File(BranchOf(ledger) \o <<"\n">>)
       /\ archive' # archive => pc = "archive"
       /\ InLoop => (lastbranchfile' = lastbranchfile /\ archive' = archive)]_vars

\* the process of the first run changed the branch from a to b, and the
\* second run archived the state of a
C24_Witness ==
    /\ runs = 2
    /\ lastbranch0 = File(<<"a", "\n">>)
    /\ DOMAIN archive = {[date |-> date, name |-> <<"a">>]}
    /\ lastbranchfile = File(<<"b", "\n">>)
    /\ pc = "for"

\* ------------------------------------------------------ the iteration log
\* the lines of an iteration log that the process wrote
ProcessLines(lines) == SelectSeq(lines, LAMBDA l : l \notin {TimeoutMarker, ErrorMarker})

\* C27: while run_tee streams, and when it has returned, the combined
\* output is exactly the process lines in the iteration log, in the order
\* read; and to the end of the cycle the iteration log keeps every process
\* line it has received: steps only add lines to it.
C27_LogHoldsOutput ==
    [][/\ pc' \in TeePcs \cup {"evaluate"} => combined' = ProcessLines(log')
       /\ pc \in TeePcs \cup {"except", "evaluate"}
            => /\ Len(ProcessLines(log')) >= Len(ProcessLines(log))
               /\ SubSeq(ProcessLines(log'), 1, Len(ProcessLines(log)))
                     = ProcessLines(log)]_vars

\* ------------------------------------------------------------ TuiDisplay
\* A raw line is a line of the process: plain text (text is its content
\* without the line end: nothing, or one row), or an opencode JSON event of
\* type "text" (text is part.text, which can hold line ends: its rows).
RawLines ==
    {[json |-> FALSE, text |-> <<>>], [json |-> FALSE, text |-> <<"x">>],
     [json |-> TRUE, text |-> <<"y">>], [json |-> TRUE, text |-> <<"one", "two">>]}

\* raw_line.rstrip(): a row, or "" (no row)
RStripped(raw) == IF raw.json THEN <<"{json}">> ELSE raw.text

\* parse_opencode_json(line): the text of a text event, None otherwise
NoSummary == <<>>
parse_opencode_json(raw) == IF raw.json THEN raw.text ELSE NoSummary

\* xs[-n:]
LastN(xs, n) == IF n = 0 \/ n >= Len(xs) THEN xs ELSE SubSeq(xs, Len(xs) - n + 1, Len(xs))

\* the rows print() puts on the screen for the lines, one after the other
RECURSIVE Rows(_)
Rows(texts) == IF texts = <<>> THEN <<>> ELSE Head(texts) \o Rows(Tail(texts))

\* TuiDisplay(lines, parse_json) on an empty display area
NewDisplay == [buffer |-> <<>>, rendered_count |-> 0, screen |-> <<>>]

\* _clear_display(): rendered_count times cursor up and clear the row
ClearDisplay(tui) ==
    [tui EXCEPT !.screen = SubSeq(tui.screen, 1, Len(tui.screen) - tui.rendered_count),
                !.rendered_count = 0]

\* _render()
Render(tui, lines) ==
    [tui EXCEPT !.screen = tui.screen \o Rows(LastN(tui.buffer, lines)),
                !.rendered_count = Len(LastN(tui.buffer, lines))]

\* the text update() shows for a line that is not blank
DisplayText(raw, parse_json) ==
    IF parse_json
    THEN (IF parse_opencode_json(raw) # NoSummary THEN parse_opencode_json(raw)
          ELSE RStripped(raw))
    ELSE RStripped(raw)

\* update(raw_line)
update(tui, lines, parse_json, raw) ==
    IF RStripped(raw) = <<>> THEN tui
    ELSE LET cleared == ClearDisplay(tui)
             buffer == Append(cleared.buffer, DisplayText(raw, parse_json))
             bounded == IF Len(buffer) > lines * 2 THEN LastN(buffer, lines) ELSE buffer
         IN  Render([cleared EXCEPT !.buffer = bounded], lines)

\* clear()
clear(tui) == [ClearDisplay(tui) EXCEPT !.buffer = <<>>]

\* arg: the display's settings and the texts of the lines it has been
\* given that were not blank; res: the display and the screen
TuiInit ==
    /\ Parked
    /\ pc = "tui"
    /\ \E n \in 1..MaxHeight, pj \in BOOLEAN :
          arg = [lines |-> n, parse_json |-> pj, received |-> <<>>, updates |-> 0]

NewTui ==
    /\ pc = "tui"
    /\ res' = NewDisplay
    /\ pc' = "streaming"
    /\ UNCHANGED <<parkedVars, arg>>

TuiUpdate(raw) ==
    /\ pc = "streaming"
    /\ arg.updates < MaxUpdates
    /\ res' = update(res, arg.lines, arg.parse_json, raw)
    /\ arg' = [arg EXCEPT !.updates = @ + 1,
                          !.received = IF RStripped(raw) = <<>> THEN @
                                       ELSE Append(@, DisplayText(raw, arg.parse_json))]
    /\ UNCHANGED <<parkedVars, pc>>

TuiClear ==
    /\ pc = "streaming"
    /\ res' = clear(res)
    /\ pc' = "cleared"
    /\ UNCHANGED <<parkedVars, arg>>

TuiNext ==
    \/ NewTui
    \/ \E raw \in RawLines : TuiUpdate(raw)
    \/ TuiClear

TuiSpec == TuiInit /\ [][TuiNext]_vars

\* the smaller of two numbers
Min(a, b) == IF a <= b THEN a ELSE b

\* the last n of the texts, in order
Latest(texts, n) == [k \in 1..n |-> texts[Len(texts) - n + k]]

\* C28: after any updates of a display of height N, with k lines received
\* that were not blank: the lines rendered are the last min(N, k) of them
\* in order; the buffer holds at most 2N lines; and the number of rendered
\* lines kept for the next clear is the number of rows on the screen, the
\* screen showing the rendered lines and nothing else.
C28_Display ==
    pc = "streaming" =>
        LET n == Min(arg.lines, Len(arg.received))
        IN  /\ LastN(res.buffer, arg.lines) = Latest(arg.received, n)
            /\ Len(res.buffer) <= 2 * arg.lines
            /\ res.rendered_count = Len(res.screen)
            /\ res.screen = Rows(Latest(arg.received, n))

====
